---- MODULE Spec2Model ----
(***************************************************************************)
(* The report pipeline of src/src/ReportBuilder.tsx: applyFilters,         *)
(* groupAndAggregate, the preview stage (projection, sort, limit),         *)
(* sqlPreview and toCSV, driven by the ReportBuilder component's render,   *)
(* its Download CSV button and its event handlers.  The stages are given   *)
(* twice: over values, and over a heap of objects and arrays with          *)
(* identity, which shows what each stage allocates and what it writes.     *)
(*                                                                         *)
(* A JavaScript string is a sequence of one-character strings.  A          *)
(* JavaScript value (string | number | undefined) is a record with the     *)
(* fields k (its kind), s (its text when a string) and n (its value when   *)
(* a finite number); numbers are integers, with NaN and the two            *)
(* infinities as kinds of their own.  A Row is a function from attribute   *)
(* names (strings) to values; an absent key reads as undefined.            *)
(***************************************************************************)
EXTENDS Integers, Sequences, FiniteSets, TLC

VARIABLES
    pc,                 \* mount (memos not yet computed for the state), rendered or downloaded
    catalog,            \* DatasetDef[]: the seeded datasets
    selectedDatasetId,  \* the position in catalog of the selected dataset
    selectedDataset,    \* useMemo: the DatasetDef [name, attributes, sampleRows] found in catalog
    selectedAttributes, \* string[]
    filters,            \* FilterDef[]: [attribute, operator, value]
    groupBy,            \* string[]
    aggregations,       \* AggregationDef[]: [attribute, func]
    sort,               \* SortDef: [attribute, direction]
    rowLimit,           \* number
    filteredRows,       \* useMemo: applyFilters(sampleRows, filters)
    staged,             \* preview's locals {rows, columns} before the sort
    preview,            \* useMemo: {rows, columns}
    sql,                \* useMemo: sqlPreview(...)
    csv                 \* the text handed to download() by Download CSV

vars == <<pc, catalog, selectedDatasetId, selectedDataset, selectedAttributes, filters, groupBy,
          aggregations, sort, rowLimit, filteredRows, staged, preview, sql, csv>>

\* ===================================================================
\* JavaScript values
\* ===================================================================
Str(s) == [k |-> "str", s |-> s, n |-> 0]
Num(n) == [k |-> "num", s |-> <<>>, n |-> n]
NaN == [k |-> "nan", s |-> <<>>, n |-> 0]
POSITIVE_INFINITY == [k |-> "pinf", s |-> <<>>, n |-> 0]
NEGATIVE_INFINITY == [k |-> "ninf", s |-> <<>>, n |-> 0]
Undef == [k |-> "undef", s |-> <<>>, n |-> 0]

\* r[c]: the value under key c, undefined when the row has no such key
Get(r, c) == IF c \in DOMAIN r THEN r[c] ELSE Undef

\* obj[c] = v
Put(r, c, v) == [x \in (DOMAIN r) \cup {c} |-> IF x = c THEN v ELSE r[x]]

EmptyObj == [x \in {} |-> Undef]

\* ===================================================================
\* JavaScript strings
\* ===================================================================
UPPER == <<"A","B","C","D","E","F","G","H","I","J","K","L","M",
           "N","O","P","Q","R","S","T","U","V","W","X","Y","Z">>
LOWER == <<"a","b","c","d","e","f","g","h","i","j","k","l","m",
           "n","o","p","q","r","s","t","u","v","w","x","y","z">>
DIGITS == <<"0","1","2","3","4","5","6","7","8","9">>

\* The grave accent, which a TLA+ string cannot hold: one character, written
\* by its name.
GRAVE == "grave"

\* the characters of the model in increasing order of their code unit
CODE_ORDER == <<"\n", " ", "!", "\"", "%", "'", "(", ")", "*", "+", ",", "-">>
              \o DIGITS \o <<";", "<", "=", ">">> \o UPPER
              \o <<"_", GRAVE>> \o LOWER \o <<"|", "§">>

IndexOf(seq, c) == CHOOSE i \in 1..Len(seq) : seq[i] = c
Has(seq, c) == \E i \in 1..Len(seq) : seq[i] = c

charCode(c) == IndexOf(CODE_ORDER, c)

toLowerChar(c) == IF Has(UPPER, c) THEN LOWER[IndexOf(UPPER, c)] ELSE c
toUpperChar(c) == IF Has(LOWER, c) THEN UPPER[IndexOf(LOWER, c)] ELSE c
toLowerCase(s) == [i \in 1..Len(s) |-> toLowerChar(s[i])]
toUpperCase(s) == [i \in 1..Len(s) |-> toUpperChar(s[i])]

\* s.includes(t), s.startsWith(t), s.endsWith(t)
includes(s, t) ==
    \E i \in 0..(Len(s) - Len(t)) : SubSeq(s, i + 1, i + Len(t)) = t
startsWith(s, t) == Len(t) <= Len(s) /\ SubSeq(s, 1, Len(t)) = t
endsWith(s, t) ==
    Len(t) <= Len(s) /\ SubSeq(s, Len(s) - Len(t) + 1, Len(s)) = t

\* s.split(c) for a one-character separator c
RECURSIVE split(_, _)
split(s, c) ==
    IF ~Has(s, c) THEN <<s>>
    ELSE LET i == CHOOSE j \in 1..Len(s) :
                    s[j] = c /\ \A m \in 1..(j - 1) : s[m] # c
         IN  <<SubSeq(s, 1, i - 1)>> \o split(SubSeq(s, i + 1, Len(s)), c)

\* parts.join(sep) for a list of strings
RECURSIVE join(_, _)
join(parts, sep) ==
    IF Len(parts) = 0 THEN <<>>
    ELSE IF Len(parts) = 1 THEN parts[1]
    ELSE parts[1] \o sep \o join(Tail(parts), sep)

\* s.replaceAll(c, rep) for a one-character pattern c
RECURSIVE replaceAll(_, _, _)
replaceAll(s, c, rep) ==
    IF Len(s) = 0 THEN <<>>
    ELSE (IF s[1] = c THEN rep ELSE <<s[1]>>) \o replaceAll(Tail(s), c, rep)

\* string < string: by code units, a proper prefix first
RECURSIVE StrLess(_, _)
StrLess(s, t) ==
    IF Len(t) = 0 THEN FALSE
    ELSE IF Len(s) = 0 THEN TRUE
    ELSE IF s[1] = t[1] THEN StrLess(Tail(s), Tail(t))
    ELSE charCode(s[1]) < charCode(t[1])

\* ===================================================================
\* JavaScript numbers
\* ===================================================================
sInfinity == <<"I","n","f","i","n","i","t","y">>
sNaN == <<"N","a","N">>
sUndefined == <<"u","n","d","e","f","i","n","e","d">>

RECURSIVE DigitsOf(_)
DigitsOf(n) ==
    IF n < 10 THEN <<DIGITS[n + 1]>>
    ELSE DigitsOf(n \div 10) \o <<DIGITS[(n % 10) + 1]>>

\* String(v)
String(v) ==
    CASE v.k = "str" -> v.s
      [] v.k = "num" -> IF v.n < 0 THEN <<"-">> \o DigitsOf(-v.n) ELSE DigitsOf(v.n)
      [] v.k = "nan" -> sNaN
      [] v.k = "pinf" -> sInfinity
      [] v.k = "ninf" -> <<"-">> \o sInfinity
      [] v.k = "undef" -> sUndefined

IsWhite(c) == c \in {" ", "\n"}

RECURSIVE trimStart(_)
trimStart(s) ==
    IF Len(s) > 0 /\ IsWhite(s[1]) THEN trimStart(Tail(s)) ELSE s
RECURSIVE trimEnd(_)
trimEnd(s) ==
    IF Len(s) > 0 /\ IsWhite(s[Len(s)]) THEN trimEnd(SubSeq(s, 1, Len(s) - 1)) ELSE s
trim(s) == trimEnd(trimStart(s))

AllDigits(s) == Len(s) > 0 /\ \A i \in 1..Len(s) : Has(DIGITS, s[i])

RECURSIVE ParseDigits(_)
ParseDigits(s) ==
    IF Len(s) = 0 THEN 0
    ELSE 10 * ParseDigits(SubSeq(s, 1, Len(s) - 1)) + (IndexOf(DIGITS, s[Len(s)]) - 1)

\* StringToNumber on the strings of the model: white space trimmed, the
\* empty string is 0, an optionally signed run of decimal digits is its
\* value, an optionally signed Infinity is that infinity, anything else
\* is NaN (the strings of the model hold no decimal point, exponent or
\* radix prefix).
StringToNumber(s) ==
    LET t == trim(s)
        signed == Len(t) > 0 /\ t[1] \in {"+", "-"}
        body == IF signed THEN Tail(t) ELSE t
        neg == signed /\ t[1] = "-"
    IN  IF Len(t) = 0 THEN Num(0)
        ELSE IF body = sInfinity
             THEN (IF neg THEN NEGATIVE_INFINITY ELSE POSITIVE_INFINITY)
        ELSE IF AllDigits(body)
             THEN Num(IF neg THEN -ParseDigits(body) ELSE ParseDigits(body))
        ELSE NaN

\* Number(v)
Number(v) ==
    CASE v.k = "str" -> StringToNumber(v.s)
      [] v.k = "undef" -> NaN
      [] OTHER -> v

\* x < y, x <= y on numbers: false when either is NaN
NumLess(x, y) ==
    /\ x.k # "nan" /\ y.k # "nan"
    /\ \/ x.k = "ninf" /\ y.k # "ninf"
       \/ y.k = "pinf" /\ x.k # "pinf"
       \/ x.k = "num" /\ y.k = "num" /\ x.n < y.n
NumLeq(x, y) == x.k # "nan" /\ y.k # "nan" /\ (NumLess(x, y) \/ x = y)

\* Math.min, Math.max
MathMin(x, y) ==
    IF x.k = "nan" \/ y.k = "nan" THEN NaN ELSE IF NumLess(y, x) THEN y ELSE x
MathMax(x, y) ==
    IF x.k = "nan" \/ y.k = "nan" THEN NaN ELSE IF NumLess(x, y) THEN y ELSE x

\* x + y on numbers
NumAdd(x, y) ==
    IF x.k = "nan" \/ y.k = "nan" THEN NaN
    ELSE IF x.k = "num" /\ y.k = "num" THEN Num(x.n + y.n)
    ELSE IF x.k = "num" THEN y
    ELSE IF y.k = "num" THEN x
    ELSE IF x.k = y.k THEN x
    ELSE NaN

\* a > b on values: two strings compare by code units, anything else as numbers
JSGreater(a, b) ==
    IF a.k = "str" /\ b.k = "str" THEN StrLess(b.s, a.s)
    ELSE NumLess(Number(b), Number(a))

\* ===================================================================
\* Dates: new Date(s) for the date-only form YYYY-MM-DD
\* ===================================================================
daysInMonth(y, m) ==
    IF m = 2 THEN (IF (y % 4 = 0 /\ y % 100 # 0) \/ y % 400 = 0 THEN 29 ELSE 28)
    ELSE IF m \in {4, 6, 9, 11} THEN 30 ELSE 31

\* days from 1970-01-01 to the civil date y-m-d
daysFromCivil(y, m, d) ==
    LET yy == IF m <= 2 THEN y - 1 ELSE y
        era == yy \div 400
        yoe == yy - era * 400
        mp == IF m > 2 THEN m - 3 ELSE m + 9
        doy == (153 * mp + 2) \div 5 + d - 1
        doe == yoe * 365 + yoe \div 4 - yoe \div 100 + doy
    IN  era * 146097 + doe - 719468

\* The time value of new Date(s), in days (every date of the model is a
\* date-only form, which is UTC midnight); NaN for an Invalid Date.  A string
\* that is not of the form YYYY-MM-DD is, among the model's strings, one
\* that no engine parses.
DateValue(s) ==
    IF /\ Len(s) = 10 /\ s[5] = "-" /\ s[8] = "-"
       /\ AllDigits(SubSeq(s, 1, 4)) /\ AllDigits(SubSeq(s, 6, 7))
       /\ AllDigits(SubSeq(s, 9, 10))
    THEN LET y == ParseDigits(SubSeq(s, 1, 4))
             m == ParseDigits(SubSeq(s, 6, 7))
             d == ParseDigits(SubSeq(s, 9, 10))
         IN  IF m \in 1..12 /\ d \in 1..daysInMonth(y, m)
             THEN Num(daysFromCivil(y, m, d)) ELSE NaN
    ELSE NaN

\* new Date(x), x a string or undefined (split's missing second part)
Date(x) == IF x.k = "str" THEN DateValue(x.s) ELSE NaN

\* ===================================================================
\* operatorsFor, isNumericType
\* ===================================================================
isNumericType(t) == t = "number" \/ t = "currency"

operatorsFor(type) ==
    IF type = "number"
    THEN << <<">">>, <<">","=">>, <<"<">>, <<"<","=">>, <<"=">>, <<"!","=">>, <<"b","e","t","w","e","e","n">> >>
    ELSE IF type = "date"
    THEN << <<"o","n">>, <<"b","e","f","o","r","e">>, <<"a","f","t","e","r">>, <<"r","a","n","g","e">> >>
    ELSE << <<"c","o","n","t","a","i","n","s">>, <<"=">>, <<"!","=">>, <<"s","t","a","r","t","s","W","i","t","h">>, <<"e","n","d","s","W","i","t","h">> >>

\* ===================================================================
\* applyFilters
\* ===================================================================
safe(v) == IF v.k = "undef" THEN Str(<<>>) ELSE v

\* the second element of a destructured split: undefined when there is none
SecondPart(parts) == IF Len(parts) >= 2 THEN Str(parts[2]) ELSE Undef

\* the between case, with the bounds compared as written
betweenCase_unnormalized(v, val) ==
    LET parts == split(val, ",")
        lo == Number(Str(parts[1]))
        hi == Number(SecondPart(parts))
    IN  NumLeq(lo, Number(v)) /\ NumLeq(Number(v), hi)

\* case "between"
betweenCase(v, val) ==
    LET parts == split(val, ",")
        lo == Number(Str(parts[1]))
        hi == Number(SecondPart(parts))
    IN  /\ NumLeq(MathMin(lo, hi), Number(v))
        /\ NumLeq(Number(v), MathMax(lo, hi))

\* case "range"
rangeCase(v, val) ==
    LET parts == split(val, ",")
    IN  /\ NumLeq(Date(Str(parts[1])), Date(Str(String(v))))
        /\ NumLeq(Date(Str(String(v))), Date(SecondPart(parts)))

\* the callback of filters.every: one filter f on one row
filterPredicate(row, f) ==
    LET v == Get(row, f.attribute)
        val == f.value
        op == f.operator
    IN  CASE op = <<"c","o","n","t","a","i","n","s">> ->
               includes(toLowerCase(String(safe(v))), toLowerCase(val))
          [] op = <<"s","t","a","r","t","s","W","i","t","h">> ->
               startsWith(toLowerCase(String(safe(v))), toLowerCase(val))
          [] op = <<"e","n","d","s","W","i","t","h">> ->
               endsWith(toLowerCase(String(safe(v))), toLowerCase(val))
          [] op = <<"=">> -> String(safe(v)) = val
          [] op = <<"!","=">> -> String(safe(v)) # val
          [] op = <<">">> -> NumLess(Number(Str(val)), Number(v))
          [] op = <<">","=">> -> NumLeq(Number(Str(val)), Number(v))
          [] op = <<"<">> -> NumLess(Number(v), Number(Str(val)))
          [] op = <<"<","=">> -> NumLeq(Number(v), Number(Str(val)))
          [] op = <<"b","e","t","w","e","e","n">> -> betweenCase(v, val)
          [] op = <<"o","n">> -> String(v) = val
          [] op = <<"b","e","f","o","r","e">> -> NumLess(Date(Str(String(v))), Date(Str(val)))
          [] op = <<"a","f","t","e","r">> -> NumLess(Date(Str(val)), Date(Str(String(v))))
          [] op = <<"r","a","n","g","e">> -> rangeCase(v, val)
          [] OTHER -> TRUE

\* filters.some in the place of filters.every
everyFilter_some(row, fs) == \E i \in 1..Len(fs) : filterPredicate(row, fs[i])

\* filters.every(...) on one row
everyFilter(row, fs) == \A i \in 1..Len(fs) : filterPredicate(row, fs[i])

applyFilters(rows, fs) ==
    IF Len(fs) = 0 THEN rows
    ELSE SelectSeq(rows, LAMBDA row : everyFilter(row, fs))

\* ===================================================================
\* groupAndAggregate
\* ===================================================================
\* an element of Array.prototype.join: undefined joins as the empty string
JoinText(v) == IF v.k = "undef" THEN <<>> ELSE String(v)

keyFn(r, gb) ==
    join([i \in 1..Len(gb) |-> JoinText(Get(r, gb[i]))], <<"|","§","|">>)

\* the column of an aggregation, and the two accumulator keys of an avg
aggColumn(a) == a.func \o <<"(">> \o a.attribute \o <<")">>
sumKey(a) == <<"_","_","s","u","m","_">> \o a.attribute
cntKey(a) == <<"_","_","c","n","t","_">> \o a.attribute

\* one aggregation's seed on a new group's base object
seedAggregation(base, a) ==
    CASE a.func = <<"a","v","g">> -> Put(Put(base, sumKey(a), Num(0)), cntKey(a), Num(0))
      [] a.func = <<"c","o","u","n","t">> -> Put(base, aggColumn(a), Num(0))
      [] a.func = <<"s","u","m">> -> Put(base, aggColumn(a), Num(0))
      [] a.func = <<"m","i","n">> -> Put(base, aggColumn(a), POSITIVE_INFINITY)
      [] a.func = <<"m","a","x">> -> Put(base, aggColumn(a), NEGATIVE_INFINITY)
      [] OTHER -> base

\* keys.forEach((c) => (obj[c] = r[c])): the values of r copied key by key
RECURSIVE copyKeys(_, _, _)
copyKeys(obj, r, keys) ==
    IF Len(keys) = 0 THEN obj
    ELSE copyKeys(Put(obj, Head(keys), Get(r, Head(keys))), r, Tail(keys))

\* aggregations.forEach(seed) on a new group's base object
RECURSIVE seedAggregations(_, _)
seedAggregations(base, aggs) ==
    IF Len(aggs) = 0 THEN base
    ELSE seedAggregations(seedAggregation(base, Head(aggs)), Tail(aggs))

\* the base object of the group that row r opens
newGroup(r, gb, aggs) == seedAggregations(copyKeys(EmptyObj, r, gb), aggs)

\* one aggregation's step on the group's object for one row r
accumulate(gobj, r, a) ==
    LET val == Number(Get(r, a.attribute))
    IN  CASE a.func = <<"c","o","u","n","t">> ->
               Put(gobj, aggColumn(a), NumAdd(Get(gobj, aggColumn(a)), Num(1)))
          [] a.func = <<"s","u","m">> ->
               Put(gobj, aggColumn(a), NumAdd(Get(gobj, aggColumn(a)), val))
          [] a.func = <<"m","i","n">> ->
               Put(gobj, aggColumn(a), MathMin(Get(gobj, aggColumn(a)), val))
          [] a.func = <<"m","a","x">> ->
               Put(gobj, aggColumn(a), MathMax(Get(gobj, aggColumn(a)), val))
          [] a.func = <<"a","v","g">> ->
               Put(Put(gobj, sumKey(a), NumAdd(Get(gobj, sumKey(a)), val)),
                   cntKey(a), NumAdd(Get(gobj, cntKey(a)), Num(1)))
          [] OTHER -> gobj

\* aggregations.forEach(step) on the group's object for one row r
RECURSIVE accumulateAll(_, _, _)
accumulateAll(gobj, r, aggs) ==
    IF Len(aggs) = 0 THEN gobj
    ELSE accumulateAll(accumulate(gobj, r, Head(aggs)), r, Tail(aggs))

\* One turn of the loop over the rows.  groups is the Map as the list of its
\* entries [key, obj] in insertion order.
consumeRow(groups, r, gb, aggs) ==
    LET k == keyFn(r, gb)
        opened == IF \E i \in 1..Len(groups) : groups[i].key = k
                  THEN groups
                  ELSE Append(groups, [key |-> k, obj |-> newGroup(r, gb, aggs)])
    IN  [i \in 1..Len(opened) |->
            IF opened[i].key = k
            THEN [key |-> k,
                  obj |-> accumulateAll(opened[i].obj, r, aggs)]
            ELSE opened[i]]

\* The loop headed "finalize avg + clean infinities": its body assigns
\* nothing, so every group object leaves it as it entered.
finalize(groups) == groups

\* for (const r of rows): the groups after every row is consumed
RECURSIVE consumeRows(_, _, _, _)
consumeRows(groups, rows, gb, aggs) ==
    IF Len(rows) = 0 THEN groups
    ELSE consumeRows(consumeRow(groups, Head(rows), gb, aggs), Tail(rows), gb, aggs)

groupAndAggregate(rows, gb, aggs) ==
    LET groups == finalize(consumeRows(<<>>, rows, gb, aggs))
    IN  [i \in 1..Len(groups) |-> groups[i].obj]

\* ===================================================================
\* sqlPreview
\* ===================================================================
\* one filter of the WHERE clause
wherePredicate(f) ==
    LET col == f.attribute
        op == f.operator
        val == IF includes(f.value, <<" ">>) \/ op = <<"c","o","n","t","a","i","n","s">>
               THEN <<"'">> \o f.value \o <<"'">> ELSE f.value
        parts == split(f.value, ",")
        a == parts[1]
        b == String(SecondPart(parts))
    IN  CASE op = <<"c","o","n","t","a","i","n","s">> -> col \o <<" ","L","I","K","E"," ","'","%">> \o f.value \o <<"%","'">>
          [] op = <<"s","t","a","r","t","s","W","i","t","h">> -> col \o <<" ","L","I","K","E"," ","'">> \o f.value \o <<"%","'">>
          [] op = <<"e","n","d","s","W","i","t","h">> -> col \o <<" ","L","I","K","E"," ","'","%">> \o f.value \o <<"'">>
          [] op = <<"b","e","t","w","e","e","n">> -> col \o <<" ","B","E","T","W","E","E","N"," ">> \o a \o <<" ","A","N","D"," ">> \o b
          [] op = <<"r","a","n","g","e">> ->
               col \o <<" ","B","E","T","W","E","E","N"," ","'">> \o a \o <<"'"," ","A","N","D"," ","'">> \o b \o <<"'">>
          [] op = <<"o","n">> -> col \o <<" ","="," ","'">> \o f.value \o <<"'">>
          [] op = <<"b","e","f","o","r","e">> -> col \o <<" ","<"," ","'">> \o f.value \o <<"'">>
          [] op = <<"a","f","t","e","r">> -> col \o <<" ",">"," ","'">> \o f.value \o <<"'">>
          [] OTHER -> col \o <<" ">> \o op \o <<" ">> \o val

\* one aggregation of the column list
aggSelect(a) ==
    toUpperCase(a.func) \o <<"(">> \o a.attribute \o <<")"," ","A","S"," ",GRAVE>> \o a.func
        \o <<"(">> \o a.attribute \o <<")",GRAVE>>

\* the WHERE clause written whether or not there is a filter
whereClause_always(where) == <<" ","W","H","E","R","E"," ">> \o where

\* the WHERE clause of the returned text: nothing when where is empty
whereClause(where) == IF Len(where) > 0 THEN <<" ","W","H","E","R","E"," ">> \o where ELSE <<>>

sqlPreview(dataset, attributes, fs, gb, aggs, srt) ==
    LET cols == IF Len(attributes) > 0 THEN join(attributes, <<","," ">>)
                ELSE IF Len(gb) > 0 \/ Len(aggs) > 0
                THEN join(gb \o [i \in 1..Len(aggs) |-> aggSelect(aggs[i])], <<","," ">>)
                ELSE <<"*">>
        where == join([i \in 1..Len(fs) |-> wherePredicate(fs[i])], <<" ","A","N","D"," ">>)
        group == IF Len(gb) > 0 THEN <<" ","G","R","O","U","P"," ","B","Y"," ">> \o join(gb, <<","," ">>) ELSE <<>>
        ord == IF Len(srt.attribute) > 0
               THEN <<" ","O","R","D","E","R"," ","B","Y"," ">> \o srt.attribute \o <<" ">> \o srt.direction
               ELSE <<>>
    IN  <<"S","E","L","E","C","T"," ">> \o cols \o <<" ","F","R","O","M"," ">> \o dataset
            \o whereClause(where)
            \o group \o ord \o <<" ","L","I","M","I","T"," ","1","0","0",";">>

\* ===================================================================
\* toCSV
\* ===================================================================
\* a field quoted without doubling its quotes
csvField_undoubled(r, c) ==
    LET raw == IF Get(r, c).k = "undef" THEN Str(<<>>) ELSE Get(r, c)
        val == String(raw)
    IN  IF Has(val, ",") \/ Has(val, "\"")
        THEN <<"\"">> \o val \o <<"\"">>
        ELSE val

\* one field: the callback of columns.map
csvField(r, c) ==
    LET raw == IF Get(r, c).k = "undef" THEN Str(<<>>) ELSE Get(r, c)
        val == String(raw)
    IN  IF Has(val, ",") \/ Has(val, "\"")
        THEN <<"\"">> \o replaceAll(val, "\"", <<"\"","\"">>) \o <<"\"">>
        ELSE val

toCSV(rows, columns) ==
    LET header == join(columns, <<",">>)
        content == join([i \in 1..Len(rows) |->
                           join([j \in 1..Len(columns) |->
                                   csvField(rows[i], columns[j])], <<",">>)],
                        <<"\n">>)
    IN  header \o <<"\n">> \o content

\* ===================================================================
\* ReportBuilder: the preview memo
\* ===================================================================
isAggregated(gb, aggs) == Len(gb) > 0 \/ Len(aggs) > 0

\* rows.map projecting each row onto the columns
project(r, columns) ==
    copyKeys(EmptyObj, r, columns)

\* arr.slice(0, n)
sliceTo(arr, n) ==
    IF n >= 0 THEN SubSeq(arr, 1, IF n < Len(arr) THEN n ELSE Len(arr))
    ELSE SubSeq(arr, 1, IF Len(arr) + n > 0 THEN Len(arr) + n ELSE 0)

\* preview's rows and columns before the sort
stageRows(rows, attrs, selected, gb, aggs) ==
    IF isAggregated(gb, aggs)
    THEN [rows |-> groupAndAggregate(rows, gb, aggs),
          columns |-> gb \o [i \in 1..Len(aggs) |-> aggColumn(aggs[i])]]
    ELSE LET columns == IF Len(selected) > 0 THEN selected
                        ELSE [i \in 1..Len(sliceTo(attrs, 6)) |-> sliceTo(attrs, 6)[i].name]
         IN  [rows |-> [i \in 1..Len(rows) |-> project(rows[i], columns)],
              columns |-> columns]

\* the comparator with the two directions exchanged
compareRows_exchanged(a, b, srt) ==
    LET dir == IF srt.direction = <<"D","E","S","C">> THEN 1 ELSE -1
    IN  IF JSGreater(Get(a, srt.attribute), Get(b, srt.attribute))
        THEN dir ELSE -dir

\* the comparator handed to sort
compareRows(a, b, srt) ==
    LET dir == IF srt.direction = <<"D","E","S","C">> THEN -1 ELSE 1
    IN  IF JSGreater(Get(a, srt.attribute), Get(b, srt.attribute))
        THEN dir ELSE -dir

IndexPermutations(n) ==
    {p \in [1..n -> 1..n] : \A i, j \in 1..n : p[i] = p[j] => i = j}

\* [...rows].sort(comparator).  The comparator never answers 0, so it is not
\* a consistent comparator and the order is implementation-defined: every
\* arrangement of the rows in which no row directly precedes one that the
\* comparator, asked both ways, places before it.
sortOutcomes(rows, srt) ==
    {q \in {[i \in 1..Len(rows) |-> rows[p[i]]] : p \in IndexPermutations(Len(rows))} :
        \A i \in 1..(Len(q) - 1) :
            ~(compareRows(q[i], q[i + 1], srt) > 0
              /\ compareRows(q[i + 1], q[i], srt) < 0)}

\* the values preview may take from the staged table
previewOutcomes(st, srt, limit) ==
    {[rows |-> sliceTo(q, limit), columns |-> st.columns] :
        q \in IF Len(srt.attribute) > 0 THEN sortOutcomes(st.rows, srt)
              ELSE {st.rows}}

\* ===================================================================
\* The same stages over references: which object and which array each
\* stage allocates, and which it writes
\* ===================================================================
\* A heap: objs[a] is the object at address a, arrs[t] the addresses of the
\* elements of the array at address t.  heapOf(rows) holds the dataset's
\* sampleRows array at address sampleRowsAt and its row objects at 1..Len(rows).
heapOf(rows) == [objs |-> rows, arrs |-> << [i \in 1..Len(rows) |-> i] >>]

sampleRowsAt == 1

\* a new array ([], filter, map, Array.from, [...rows], slice)
newArray(h, elems) ==
    [heap |-> [h EXCEPT !.arrs = Append(@, elems)], at |-> Len(h.arrs) + 1]

\* a new object literal
newObject(h, obj) ==
    [heap |-> [h EXCEPT !.objs = Append(@, obj)], at |-> Len(h.objs) + 1]

\* assignments to the fields of the object at an address
writeObject(h, at, obj) == [h EXCEPT !.objs[at] = obj]

\* the rows that the array at an address holds
deref(h, at) == [i \in 1..Len(h.arrs[at]) |-> h.objs[h.arrs[at][i]]]

\* applyFilters: the rows array itself when there is no filter, otherwise
\* the new array of rows.filter holding the same row objects
applyFiltersAt(h, rowsAt, fs) ==
    IF Len(fs) = 0 THEN [heap |-> h, at |-> rowsAt]
    ELSE newArray(h, SelectSeq(h.arrs[rowsAt], LAMBDA r : everyFilter(h.objs[r], fs)))

\* the group's base object taken to be the row that opens the group
baseObject_aliased(h, r) == [heap |-> h, at |-> r]

\* const base = {}: the group's base object is a new object
baseObject(h, r) == newObject(h, EmptyObj)

\* One turn of the loop over the rows, for the row at address r.  st holds
\* the heap and the Map as the list of its entries [key, at].
consumeRowAt(st, r, gb, aggs) ==
    LET k == keyFn(st.heap.objs[r], gb)
        base == baseObject(st.heap, r)
        opened ==
            IF \E i \in 1..Len(st.groups) : st.groups[i].key = k THEN st
            ELSE [heap |-> writeObject(base.heap, base.at,
                               seedAggregations(copyKeys(base.heap.objs[base.at],
                                                         base.heap.objs[r], gb), aggs)),
                  groups |-> Append(st.groups, [key |-> k, at |-> base.at])]
        gobj == opened.groups[CHOOSE i \in 1..Len(opened.groups) :
                                  opened.groups[i].key = k].at
    IN  [heap |-> writeObject(opened.heap, gobj,
                      accumulateAll(opened.heap.objs[gobj], opened.heap.objs[r], aggs)),
         groups |-> opened.groups]

RECURSIVE consumeRowsAt(_, _, _, _)
consumeRowsAt(st, addrs, gb, aggs) ==
    IF Len(addrs) = 0 THEN st
    ELSE consumeRowsAt(consumeRowAt(st, Head(addrs), gb, aggs), Tail(addrs), gb, aggs)

\* groupAndAggregate: Array.from(groups.values()) is a new array of the
\* group objects
groupAndAggregateAt(h, rowsAt, gb, aggs) ==
    LET st == consumeRowsAt([heap |-> h, groups |-> <<>>], h.arrs[rowsAt], gb, aggs)
    IN  newArray(st.heap, [i \in 1..Len(st.groups) |-> st.groups[i].at])

\* rows.map((r) => { const obj = {}; ...; return obj; }): one new object per
\* row, out being the addresses already returned
RECURSIVE projectAt(_, _, _, _)
projectAt(h, addrs, columns, out) ==
    IF Len(addrs) = 0 THEN newArray(h, out)
    ELSE LET obj == newObject(h, EmptyObj)
             filled == writeObject(obj.heap, obj.at,
                                   copyKeys(obj.heap.objs[obj.at],
                                            obj.heap.objs[Head(addrs)], columns))
         IN  projectAt(filled, Tail(addrs), columns, Append(out, obj.at))

\* preview's rows before the sort
stageAt(h, rowsAt, attrs, selected, gb, aggs) ==
    IF isAggregated(gb, aggs) THEN groupAndAggregateAt(h, rowsAt, gb, aggs)
    ELSE LET columns == IF Len(selected) > 0 THEN selected
                        ELSE [i \in 1..Len(sliceTo(attrs, 6)) |-> sliceTo(attrs, 6)[i].name]
         IN  projectAt(h, h.arrs[rowsAt], columns, <<>>)

\* [...rows].sort(comparator): the copy is a new array and the sort writes
\* the copy in place; one outcome per arrangement the comparator allows
sortAt(h, rowsAt, srt) ==
    LET copy == newArray(h, h.arrs[rowsAt])
        addrs == copy.heap.arrs[copy.at]
    IN  {[heap |-> [copy.heap EXCEPT !.arrs[copy.at] = q], at |-> copy.at] :
            q \in {q \in {[i \in 1..Len(addrs) |-> addrs[p[i]]] :
                             p \in IndexPermutations(Len(addrs))} :
                     \A i \in 1..(Len(q) - 1) :
                         ~(compareRows(h.objs[q[i]], h.objs[q[i + 1]], srt) > 0
                           /\ compareRows(h.objs[q[i + 1]], h.objs[q[i]], srt) < 0)}}

\* rows.slice(0, rowLimit)
sliceAt(h, rowsAt, n) == newArray(h, sliceTo(h.arrs[rowsAt], n))

\* The filteredRows memo and the preview memo run over the heap h: every
\* heap they may leave, with the address of preview.rows.
previewRuns(h, attrs, selected, fs, gb, aggs, srt, limit) ==
    LET filtered == applyFiltersAt(h, sampleRowsAt, fs)
        st == stageAt(filtered.heap, filtered.at, attrs, selected, gb, aggs)
        sorted == IF Len(srt.attribute) > 0 THEN sortAt(st.heap, st.at, srt) ELSE {st}
    IN  {sliceAt(x.heap, x.at, limit) : x \in sorted}

\* the datasets as one render leaves them: the sampleRows of the selected
\* one read back from the heap after the run
catalogAfter(cat, id, run) ==
    [cat EXCEPT ![id].sampleRows = deref(run.heap, sampleRowsAt)]

\* ===================================================================
\* The component: state after construction, render, Download CSV
\* ===================================================================
NoTable == [rows |-> <<>>, columns |-> <<>>]

\* The state hooks as first set, for one dataset and one configuration; the
\* memos are not yet computed.
MountCatalog(cat, id, selected, fs, gb, aggs, srt, limit) ==
    /\ pc = "mount"
    /\ catalog = cat
    /\ selectedDatasetId = id
    /\ selectedDataset = cat[id]
    /\ selectedAttributes = selected
    /\ filters = fs
    /\ groupBy = gb
    /\ aggregations = aggs
    /\ sort = srt
    /\ rowLimit = limit
    /\ filteredRows = <<>>
    /\ staged = NoTable
    /\ preview = NoTable
    /\ sql = <<>>
    /\ csv = <<>>

\* the state hooks for a catalog of the one dataset ds
Mount(ds, selected, fs, gb, aggs, srt, limit) ==
    MountCatalog(<<ds>>, 1, selected, fs, gb, aggs, srt, limit)

\* One render: the memos selectedDataset, filteredRows, preview and sql.  The
\* dataset found in catalog is the very object that the memos read, so it
\* is left as the run over the heap leaves it.
Render ==
    /\ pc = "mount"
    /\ LET dataset == catalog[selectedDatasetId]
       IN  /\ filteredRows' = applyFilters(dataset.sampleRows, filters)
           /\ staged' = stageRows(filteredRows', dataset.attributes,
                                  selectedAttributes, groupBy, aggregations)
           /\ preview' \in previewOutcomes(staged', sort, rowLimit)
           /\ sql' = sqlPreview(replaceAll(dataset.name, " ", <<"_">>),
                                selectedAttributes, filters, groupBy, aggregations, sort)
           /\ \E run \in previewRuns(heapOf(dataset.sampleRows), dataset.attributes,
                                      selectedAttributes, filters, groupBy,
                                      aggregations, sort, rowLimit) :
                  catalog' = catalogAfter(catalog, selectedDatasetId, run)
           /\ selectedDataset' = catalog'[selectedDatasetId]
    /\ pc' = "rendered"
    /\ UNCHANGED <<selectedDatasetId, selectedAttributes, filters, groupBy,
                   aggregations, sort, rowLimit, csv>>

\* The Download CSV button.
DownloadCSV ==
    /\ pc = "rendered"
    /\ csv' = toCSV(preview.rows, preview.columns)
    /\ pc' = "downloaded"
    /\ UNCHANGED <<catalog, selectedDatasetId, selectedDataset, selectedAttributes,
                   filters, groupBy, aggregations, sort, rowLimit, filteredRows,
                   staged, preview, sql>>

Next == Render \/ DownloadCSV

\* ===================================================================
\* Inputs
\* ===================================================================
SeqsUpTo(S, n) == UNION {[1..k -> S] : k \in 0..n}

Attr(name, type) == [name |-> name, type |-> type]
Dataset(name, attrs, rows) == [name |-> name, attributes |-> attrs, sampleRows |-> rows]
Filter(attribute, operator, value) ==
    [attribute |-> attribute, operator |-> operator, value |-> value]
Agg(attribute, func) == [attribute |-> attribute, func |-> func]
SortBy(attribute, direction) == [attribute |-> attribute, direction |-> direction]

NoSort == SortBy(<<>>, <<"A","S","C">>)
DefaultRowLimit == 50

MaxRows == 2
MaxFilters == 2
MaxBoundRows == 2
MaxAggRows == 3
MaxAggs == 2
MaxCsvRows == 2
MaxColumns == 2
MaxSortRows == 3
MaxLimit == 2
MaxSqlFilters == 2

\* ----- filters ------------------------------------------------------
FilterAttrs == << Attr(<<"s">>, "string"), Attr(<<"n">>, "number"), Attr(<<"d">>, "date") >>

FilterRowPool ==
    { (<<"s">> :> Str(<<"f","o","o","b","a","r">>)) @@ (<<"n">> :> Num(10)) @@ (<<"d">> :> Str(<<"2","0","2","4","-","0","1","-","1","5">>)),
      (<<"s">> :> Str(<<"B","a","r">>)) @@ (<<"n">> :> Num(50)) @@ (<<"d">> :> Str(<<"2","0","2","4","-","0","2","-","0","1">>)),
      (<<"s">> :> Num(5)) @@ (<<"n">> :> Num(7)) }

FilterPool ==
    { Filter(<<"s">>, <<"c","o","n","t","a","i","n","s">>, <<"F","O","O">>),
      Filter(<<"s">>, <<"s","t","a","r","t","s","W","i","t","h">>, <<"b","a">>),
      Filter(<<"s">>, <<"e","n","d","s","W","i","t","h">>, <<"A","R">>),
      Filter(<<"s">>, <<"=">>, <<"B","a","r">>),
      Filter(<<"s">>, <<"!","=">>, <<"5">>),
      Filter(<<"n">>, <<">">>, <<"1","0">>),
      Filter(<<"n">>, <<">","=">>, <<"1","0">>),
      Filter(<<"n">>, <<"<">>, <<"1","0">>),
      Filter(<<"n">>, <<"<","=">>, <<" ","1","0"," ">>),
      Filter(<<"n">>, <<"b","e","t","w","e","e","n">>, <<"5","0",",","1","0">>),
      Filter(<<"d">>, <<"o","n">>, <<"2","0","2","4","-","0","1","-","1","5">>),
      Filter(<<"d">>, <<"b","e","f","o","r","e">>, <<"2","0","2","4","-","0","2","-","0","1">>),
      Filter(<<"d">>, <<"a","f","t","e","r">>, <<"2","0","2","4","-","0","1","-","1","5">>),
      Filter(<<"d">>, <<"r","a","n","g","e">>, <<"2","0","2","4","-","0","1","-","0","1",",","2","0","2","4","-","0","1","-","3","1">>),
      Filter(<<"s">>, <<"l","i","k","e">>, <<"x">>),
      Filter(<<"q">>, <<"c","o","n","t","a","i","n","s">>, <<"x">>) }

InitFilter ==
    \E rows \in SeqsUpTo(FilterRowPool, MaxRows),
       fs \in SeqsUpTo(FilterPool, MaxFilters) :
        Mount(Dataset(<<"T">>, FilterAttrs, rows), <<>>, fs, <<>>, <<>>,
              NoSort, DefaultRowLimit)

SpecFilter == InitFilter /\ [][Next]_vars

\* ----- between and range -------------------------------------------
BoundInts == {-5, 0, 10, 50}
DatePool == << <<"2","0","2","3","-","1","2","-","3","1">>, <<"2","0","2","4","-","0","1","-","0","1">>, <<"2","0","2","4","-","0","1","-","1","5">>, <<"2","0","2","4","-","0","2","-","0","1">> >>

BoundRowPool ==
    { (<<"n">> :> Num(10)) @@ (<<"d">> :> Str(<<"2","0","2","4","-","0","1","-","0","1">>)),
      (<<"n">> :> Num(-5)) @@ (<<"d">> :> Str(<<"2","0","2","4","-","0","2","-","0","1">>)),
      (<<"n">> :> Num(30)) @@ (<<"d">> :> Str(<<"2","0","2","4","-","0","1","-","1","5">>)),
      (<<"n">> :> Num(51)) @@ (<<"d">> :> Str(<<"2","0","2","3","-","1","2","-","3","1">>)),
      (<<"n">> :> Str(<<"a","b","c">>)) @@ (<<"d">> :> Str(<<"s","o","o","n">>)),
      (<<"s">> :> Str(<<"x">>)) }

BoundFilterPool ==
    {Filter(<<"n">>, <<"b","e","t","w","e","e","n">>, String(Num(x)) \o <<",">> \o String(Num(y))) :
        x, y \in BoundInts}
    \cup
    {Filter(<<"d">>, <<"r","a","n","g","e">>, DatePool[i] \o <<",">> \o DatePool[j]) :
        i, j \in 1..Len(DatePool)}

InitBounds ==
    \E rows \in SeqsUpTo(BoundRowPool, MaxBoundRows), f \in BoundFilterPool :
        Mount(Dataset(<<"T">>, FilterAttrs, rows), <<>>, <<f>>, <<>>, <<>>,
              NoSort, DefaultRowLimit)

SpecBounds == InitBounds /\ [][Next]_vars

\* ----- grouping and aggregation --------------------------------------
AggAttrs == << Attr(<<"g">>, "string"), Attr(<<"h">>, "string"), Attr(<<"a">>, "number") >>

AggRowPool ==
    { (<<"g">> :> Str(<<"x","|","§","|","y">>)) @@ (<<"h">> :> Str(<<"z">>)) @@ (<<"a">> :> Num(10)),
      (<<"g">> :> Str(<<"x">>)) @@ (<<"h">> :> Str(<<"y","|","§","|","z">>)) @@ (<<"a">> :> Num(5)),
      (<<"g">> :> Str(<<"x">>)) @@ (<<"h">> :> Str(<<"z">>)) @@ (<<"a">> :> Num(7)),
      (<<"g">> :> Str(<<"x">>)) @@ (<<"h">> :> Str(<<"z">>)),
      (<<"g">> :> Str(<<"E","U">>)) @@ (<<"h">> :> Str(<<"z">>)) @@ (<<"a">> :> Str(<<"I","n","f","i","n","i","t","y">>)) }

NUMERIC_FUNCS == << <<"s","u","m">>, <<"a","v","g">>, <<"m","i","n">>, <<"m","a","x">>, <<"c","o","u","n","t">> >>

AggPool == {Agg(<<"a">>, NUMERIC_FUNCS[i]) : i \in 1..Len(NUMERIC_FUNCS)}

GroupByPool == { <<>>, << <<"g">> >>, << <<"g">>, <<"h">> >> }

InitAggregate ==
    \E rows \in SeqsUpTo(AggRowPool, MaxAggRows),
       gb \in GroupByPool,
       aggs \in SeqsUpTo(AggPool, MaxAggs) :
        /\ isAggregated(gb, aggs)
        /\ Mount(Dataset(<<"T">>, AggAttrs, rows), <<>>, <<>>, gb, aggs,
                 NoSort, DefaultRowLimit)

SpecAggregate == InitAggregate /\ [][Next]_vars

\* ----- delimited text -------------------------------------------------
CsvAttrs == << Attr(<<"a">>, "string"), Attr(<<"b">>, "number") >>

CsvRowPool ==
    { (<<"a">> :> Str(<<"x">>)) @@ (<<"b">> :> Num(1)),
      (<<"a">> :> Str(<<"y",","," ","z">>)) @@ (<<"b">> :> Num(2)),
      (<<"a">> :> Str(<<"H","e"," ","\"","h","i","\"">>)) @@ (<<"b">> :> Num(-30)),
      (<<"a">> :> Str(<<"\"">>)) @@ (<<"b">> :> Str(<<",","\"","\"",",">>)),
      (<<"a">> :> Str(<<"p",",","q">>)),
      (<<"a">> :> Str(<<>>)),
      (<<"b">> :> Num(0)) }

InitCSV ==
    \E rows \in SeqsUpTo(CsvRowPool, MaxCsvRows),
       cols \in SeqsUpTo({<<"a">>, <<"b">>}, MaxColumns) :
        Mount(Dataset(<<"T">>, CsvAttrs, rows), cols, <<>>, <<>>, <<>>,
              NoSort, DefaultRowLimit)

SpecCSV == InitCSV /\ [][Next]_vars

\* ----- sort and limit -------------------------------------------------
SortAttrs == << Attr(<<"n">>, "number"), Attr(<<"s">>, "string") >>

SortRowPool ==
    { (<<"n">> :> Num(3)) @@ (<<"s">> :> Str(<<"a">>)),
      (<<"n">> :> Num(1)) @@ (<<"s">> :> Str(<<"b">>)),
      (<<"n">> :> Num(3)) @@ (<<"s">> :> Str(<<"c">>)),
      (<<"n">> :> Num(-2)) @@ (<<"s">> :> Str(<<"d">>)) }

InitSort ==
    \E rows \in SeqsUpTo(SortRowPool, MaxSortRows),
       direction \in {<<"A","S","C">>, <<"D","E","S","C">>},
       limit \in 1..MaxLimit :
        Mount(Dataset(<<"T">>, SortAttrs, rows), <<>>, <<>>, <<>>, <<>>,
              SortBy(<<"n">>, direction), limit)

SpecSort == InitSort /\ [][Next]_vars

\* ----- query text -------------------------------------------------------
SqlAttrs == << Attr(<<"s">>, "string"), Attr(<<"n">>, "number"), Attr(<<"d">>, "date") >>

SqlFilterPool ==
    { Filter(<<"s">>, <<"c","o","n","t","a","i","n","s">>, <<"f","o","o">>),
      Filter(<<"s">>, <<"c","o","n","t","a","i","n","s">>, <<>>),
      Filter(<<"s">>, <<"s","t","a","r","t","s","W","i","t","h">>, <<"b","a">>),
      Filter(<<"s">>, <<"e","n","d","s","W","i","t","h">>, <<"a","r">>),
      Filter(<<"s">>, <<"=">>, <<"a"," ","b">>),
      Filter(<<"s">>, <<"!","=">>, <<"x">>),
      Filter(<<"n">>, <<">">>, <<"1","0">>),
      Filter(<<"n">>, <<"<","=">>, <<"1","0">>),
      Filter(<<"n">>, <<"b","e","t","w","e","e","n">>, <<"5","0",",","1","0">>),
      Filter(<<"n">>, <<"b","e","t","w","e","e","n">>, <<"5","0">>),
      Filter(<<"d">>, <<"o","n">>, <<"2","0","2","4","-","0","1","-","1","5">>),
      Filter(<<"d">>, <<"b","e","f","o","r","e">>, <<"2","0","2","4","-","0","2","-","0","1">>),
      Filter(<<"d">>, <<"a","f","t","e","r">>, <<"2","0","2","4","-","0","1","-","0","1">>),
      Filter(<<"d">>, <<"r","a","n","g","e">>, <<"2","0","2","4","-","0","1","-","0","1",",","2","0","2","4","-","0","1","-","3","1">>),
      Filter(<<>>, <<>>, <<>>) }

SqlShapePool ==
    { [selected |-> <<>>, gb |-> <<>>, aggs |-> <<>>, srt |-> NoSort],
      [selected |-> << <<"s">>, <<"n">> >>, gb |-> <<>>, aggs |-> <<>>,
       srt |-> SortBy(<<"n">>, <<"D","E","S","C">>)],
      [selected |-> <<>>, gb |-> << <<"s">> >>, aggs |-> << Agg(<<"n">>, <<"s","u","m">>) >>,
       srt |-> SortBy(<<"s">>, <<"A","S","C">>)],
      [selected |-> <<>>, gb |-> << <<"s">> >>, aggs |-> <<>>, srt |-> NoSort] }

SqlRows == << (<<"s">> :> Str(<<"f","o","o","b","a","r">>)) @@ (<<"n">> :> Num(10)) @@ (<<"d">> :> Str(<<"2","0","2","4","-","0","1","-","1","5">>)) >>

InitSQL ==
    \E fs \in SeqsUpTo(SqlFilterPool, MaxSqlFilters), shape \in SqlShapePool :
        Mount(Dataset(<<"C","a","s","h"," ","M","o","v","e","m","e","n","t","s">>, SqlAttrs, SqlRows), shape.selected, fs,
              shape.gb, shape.aggs, shape.srt, DefaultRowLimit)

SpecSQL == InitSQL /\ [][Next]_vars

\* ===================================================================
\* Claims
\* ===================================================================
Min2(x, y) == IF x < y THEN x ELSE y
Max2(x, y) == IF x < y THEN y ELSE x

\* C1: applyFilters returns, in their original relative order, exactly the
\* rows for which every filter holds (so a sub-list of the rows), and the
\* rows themselves for the empty filter list.
C1_FilterKeepsExactlyPassingRows ==
    pc # "mount" =>
        LET rows == selectedDataset.sampleRows
            K == {i \in 1..Len(rows) :
                    \A j \in 1..Len(filters) : filterPredicate(rows[i], filters[j])}
        IN  /\ \E m \in [1..Len(filteredRows) -> 1..Len(rows)] :
                  /\ \A i, j \in 1..Len(filteredRows) : i < j => m[i] < m[j]
                  /\ {m[i] : i \in 1..Len(filteredRows)} = K
                  /\ \A i \in 1..Len(filteredRows) : filteredRows[i] = rows[m[i]]
            /\ (Len(filters) = 0 => filteredRows = rows)

\* C1 witness: two filters, two rows, the first row passes one filter and
\* fails the other and is dropped, the second row is kept.
C1_Witness ==
    /\ pc = "rendered"
    /\ Len(filters) = 2
    /\ Len(selectedDataset.sampleRows) = 2
    /\ filterPredicate(selectedDataset.sampleRows[1], filters[1])
    /\ ~filterPredicate(selectedDataset.sampleRows[1], filters[2])
    /\ filteredRows = << selectedDataset.sampleRows[2] >>
    /\ selectedDataset.sampleRows[1] # selectedDataset.sampleRows[2]

\* C8: a between filter with the bound string x,y keeps exactly the rows
\* whose numeric value lies in [min(x,y), max(x,y)], so exchanging the bounds
\* changes nothing; a range filter with the bound string d1,d2 keeps exactly
\* the rows whose date lies in [d1, d2] as written, so none when d1 is later
\* than d2.
C8_BetweenNormalizedRangeNot ==
    (pc # "mount" /\ Len(filters) = 1) =>
        LET f == filters[1]
            rows == selectedDataset.sampleRows
        IN  /\ \A x, y \in BoundInts :
                  (f.operator = <<"b","e","t","w","e","e","n">>
                   /\ f.value = String(Num(x)) \o <<",">> \o String(Num(y)))
                  => /\ filteredRows =
                          SelectSeq(rows, LAMBDA r :
                              /\ Get(r, f.attribute).k = "num"
                              /\ Min2(x, y) <= Get(r, f.attribute).n
                              /\ Get(r, f.attribute).n <= Max2(x, y))
                     /\ filteredRows =
                          applyFilters(rows,
                              << Filter(f.attribute, <<"b","e","t","w","e","e","n">>,
                                        String(Num(y)) \o <<",">> \o String(Num(x))) >>)
            /\ \A i, j \in 1..Len(DatePool) :
                  (f.operator = <<"r","a","n","g","e">>
                   /\ f.value = DatePool[i] \o <<",">> \o DatePool[j])
                  => /\ filteredRows =
                          SelectSeq(rows, LAMBDA r :
                              \E k \in i..j : Get(r, f.attribute) = Str(DatePool[k]))
                     /\ (i > j => filteredRows = <<>>)

\* C8 witness: between 50,10 keeps a row, and on the same rows the range with
\* its bounds in order keeps a row and with its bounds exchanged keeps none.
C8_Witness ==
    /\ pc = "rendered"
    /\ filters = << Filter(<<"n">>, <<"b","e","t","w","e","e","n">>, <<"5","0",",","1","0">>) >>
    /\ Len(filteredRows) = 1
    /\ Len(selectedDataset.sampleRows) = 2
    /\ applyFilters(selectedDataset.sampleRows,
                    << Filter(<<"d">>, <<"r","a","n","g","e">>, <<"2","0","2","4","-","0","1","-","0","1",",","2","0","2","4","-","0","2","-","0","1">>) >>) # <<>>
    /\ applyFilters(selectedDataset.sampleRows,
                    << Filter(<<"d">>, <<"r","a","n","g","e">>, <<"2","0","2","4","-","0","2","-","0","1",",","2","0","2","4","-","0","1","-","0","1">>) >>) = <<>>

\* C4: toCSV split on the newline character has exactly |R|+1 lines, the
\* header and one line per row, with no trailing newline, for every row
\* list, the empty one included.
C4_LinesAreRowsPlusOne ==
    pc = "downloaded" => Len(split(csv, "\n")) = Len(preview.rows) + 1

\* strip the outer quotes of a field and halve its doubled quotes
RECURSIVE Halve(_)
Halve(s) ==
    IF Len(s) = 0 THEN <<>>
    ELSE IF Len(s) >= 2 /\ s[1] = "\"" /\ s[2] = "\""
    THEN <<"\"">> \o Halve(SubSeq(s, 3, Len(s)))
    ELSE <<s[1]>> \o Halve(Tail(s))
Unquote(f) == Halve(SubSeq(f, 2, Len(f) - 1))

CountChar(s, c) == Cardinality({i \in 1..Len(s) : s[i] = c})

\* the text of the value of column c in row r: empty when the value is missing
FieldText(r, c) == IF Get(r, c).k = "undef" THEN <<>> ELSE String(Get(r, c))

\* C5: in toCSV a value holding a comma or a double quote is emitted in
\* double quotes with every inner quote doubled, any other value verbatim (a
\* missing one as the empty string), and un-quoting a quoted field gives the
\* value back.
C5_QuotingRoundTrips ==
    pc = "downloaded" =>
        LET rows == preview.rows
            columns == preview.columns
            field(i, j) == csvField(rows[i], columns[j])
        IN  /\ \A i \in 1..Len(rows), j \in 1..Len(columns) :
                  LET val == FieldText(rows[i], columns[j])
                      f == field(i, j)
                  IN  IF Has(val, ",") \/ Has(val, "\"")
                      THEN /\ Len(f) = Len(val) + 2 + CountChar(val, "\"")
                           /\ f[1] = "\"" /\ f[Len(f)] = "\""
                           /\ Unquote(f) = val
                      ELSE f = val
            /\ csv = join(columns, <<",">>) \o <<"\n">>
                       \o join([i \in 1..Len(rows) |->
                                  join([j \in 1..Len(columns) |-> field(i, j)], <<",">>)],
                               <<"\n">>)

\* C5 witness: a downloaded table with a value holding quotes, a value
\* holding a comma, a number and a missing value.
C5_Witness ==
    /\ pc = "downloaded"
    /\ Len(preview.rows) = 2
    /\ preview.columns = << <<"a">>, <<"b">> >>
    /\ Has(FieldText(preview.rows[1], <<"a">>), "\"")
    /\ Get(preview.rows[1], <<"b">>).k = "num"
    /\ Has(FieldText(preview.rows[2], <<"a">>), ",")
    /\ Get(preview.rows[2], <<"b">>).k = "undef"

\* the group-key tuple of a row: the texts of its group-by values, in order
GroupTuple(r) == [i \in 1..Len(groupBy) |-> JoinText(Get(r, groupBy[i]))]

\* the filtered rows whose group-key tuple is that of the result row g
TupleMembers(g) == SelectSeq(filteredRows, LAMBDA r : GroupTuple(r) = GroupTuple(g))

\* the filtered rows that the code put into the group of the result row g
KeyMembers(g) == SelectSeq(filteredRows, LAMBDA r : keyFn(r, groupBy) = keyFn(g, groupBy))

RECURSIVE SumOfNumbers(_, _)
SumOfNumbers(rows, attr) ==
    IF Len(rows) = 0 THEN 0
    ELSE Get(rows[1], attr).n + SumOfNumbers(Tail(rows), attr)

\* the total of attr over rows, a value that is absent or not a number
\* counting as 0
RECURSIVE SumOfContributions(_, _)
SumOfContributions(rows, attr) ==
    IF Len(rows) = 0 THEN Num(0)
    ELSE LET val == Number(Get(rows[1], attr))
         IN  NumAdd(IF val.k = "nan" THEN Num(0) ELSE val,
                    SumOfContributions(Tail(rows), attr))

RECURSIVE DistinctInOrder(_)
DistinctInOrder(seq) ==
    IF Len(seq) = 0 THEN <<>>
    ELSE LET rest == DistinctInOrder(SubSeq(seq, 1, Len(seq) - 1))
             last == seq[Len(seq)]
         IN  IF \E i \in 1..Len(rest) : rest[i] = last THEN rest
             ELSE Append(rest, last)

Aggregated == pc # "mount" /\ isAggregated(groupBy, aggregations)

\* C2: for an aggregation {attribute a, func avg} every result row of
\* groupAndAggregate carries, under the column avg(a), the arithmetic mean of
\* the values of a over the rows of its group, never a running total.
C2_AvgColumnIsTheMean ==
    Aggregated =>
        \A i \in 1..Len(staged.rows), k \in 1..Len(aggregations) :
            LET g == staged.rows[i]
                a == aggregations[k]
                members == TupleMembers(g)
            IN  (/\ a.func = <<"a","v","g">>
                 /\ \A j \in 1..Len(members) : Get(members[j], a.attribute).k = "num")
                => /\ (<<"a","v","g","(">> \o a.attribute \o <<")">>) \in DOMAIN g
                   /\ g[<<"a","v","g","(">> \o a.attribute \o <<")">>].k = "num"
                   /\ g[<<"a","v","g","(">> \o a.attribute \o <<")">>].n * Len(members)
                        = SumOfNumbers(members, a.attribute)

\* C3: groupAndAggregate returns exactly one row per distinct group-key tuple
\* of the input rows, in the order in which the tuples are first seen; rows
\* whose tuples differ are never merged.
C3_OneRowPerDistinctTuple ==
    Aggregated =>
        LET tuples == DistinctInOrder([i \in 1..Len(filteredRows) |->
                                          GroupTuple(filteredRows[i])])
        IN  /\ Len(staged.rows) = Len(tuples)
            /\ \A i \in 1..Len(tuples) : GroupTuple(staged.rows[i]) = tuples[i]

\* C6: the value emitted for a min or max aggregation is never +infinity or
\* -infinity in any result row.
C6_MinMaxNeverInfinite ==
    Aggregated =>
        \A i \in 1..Len(staged.rows), k \in 1..Len(aggregations) :
            aggregations[k].func \in {<<"m","i","n">>, <<"m","a","x">>}
            => Get(staged.rows[i], aggColumn(aggregations[k])).k \notin {"pinf", "ninf"}

\* C7: for a sum aggregation on attribute a, a row whose value of a is absent
\* or not a number contributes 0: the emitted sum(a) is the total of the
\* numeric values of a over the rows of the group, and never NaN.
C7_SumCountsNonNumbersAsZero ==
    Aggregated =>
        \A i \in 1..Len(staged.rows), k \in 1..Len(aggregations) :
            LET g == staged.rows[i]
                a == aggregations[k]
            IN  (/\ a.func = <<"s","u","m">>
                 /\ \A m \in 1..Len(aggregations) : aggregations[m] = a => m = k)
                => /\ Get(g, aggColumn(a)).k # "nan"
                   /\ Get(g, aggColumn(a)) = SumOfContributions(KeyMembers(g), a.attribute)

\* C9: with a numeric sort attribute and direction DESC the preview rows are
\* non-increasing in that attribute, whatever the input order and with equal
\* values among them, and they are the first rowLimit rows of a sorted
\* arrangement of the input rows.
C9_DescIsNonIncreasingAndTruncated ==
    (pc # "mount" /\ sort.attribute = <<"n">> /\ sort.direction = <<"D","E","S","C">>) =>
        LET out == preview.rows
            inp == staged.rows
            val(r) == Get(r, sort.attribute).n
        IN  /\ \A i \in 1..(Len(out) - 1) : val(out[i]) >= val(out[i + 1])
            /\ Len(out) = Min2(rowLimit, Len(inp))
            /\ \E p \in IndexPermutations(Len(inp)) :
                  /\ \A i \in 1..(Len(inp) - 1) : val(inp[p[i]]) >= val(inp[p[i + 1]])
                  /\ \A i \in 1..Len(out) : out[i] = inp[p[i]]

\* C9 witness: three rows given in increasing order, two of them with the
\* same value, sorted DESC and cut to two rows.
C9_Witness ==
    /\ pc = "rendered"
    /\ sort.direction = <<"D","E","S","C">>
    /\ Len(staged.rows) = 3
    /\ Get(staged.rows[1], <<"n">>).n < Get(staged.rows[2], <<"n">>).n
    /\ Get(staged.rows[2], <<"n">>) = Get(staged.rows[3], <<"n">>)
    /\ staged.rows[2] # staged.rows[3]
    /\ rowLimit = 2
    /\ preview.rows = << staged.rows[3], staged.rows[2] >>

\* the first position at which t occurs in s, 0 when it does not
FirstIndexOf(s, t) ==
    IF includes(s, t)
    THEN CHOOSE i \in 1..(Len(s) - Len(t) + 1) :
            /\ SubSeq(s, i, i + Len(t) - 1) = t
            /\ \A j \in 1..(i - 1) : SubSeq(s, j, j + Len(t) - 1) # t
    ELSE 0

\* C10: the text of sqlPreview holds a WHERE clause exactly when there is a
\* filter; the clause holds one predicate per filter, in filter order, joined
\* by AND, and a contains filter on c with value v reads c LIKE '%v%'.
C10_WhereClauseIffFilters ==
    pc # "mount" =>
        LET predicates == [i \in 1..Len(filters) |-> wherePredicate(filters[i])]
            clause == <<" ","W","H","E","R","E"," ">> \o join(predicates, <<" ","A","N","D"," ">>)
            at == FirstIndexOf(sql, <<" ","W","H","E","R","E"," ">>)
            rest == SubSeq(sql, at + Len(clause), Len(sql))
        IN  /\ includes(sql, <<" ","W","H","E","R","E"," ">>) <=> Len(filters) > 0
            /\ Len(filters) > 0 =>
                  /\ SubSeq(sql, at, at + Len(clause) - 1) = clause
                  /\ \/ startsWith(rest, <<" ","G","R","O","U","P"," ","B","Y"," ">>)
                     \/ startsWith(rest, <<" ","O","R","D","E","R"," ","B","Y"," ">>)
                     \/ startsWith(rest, <<" ","L","I","M","I","T"," ">>)
            /\ \A i \in 1..Len(filters) :
                  filters[i].operator = <<"c","o","n","t","a","i","n","s">>
                  => predicates[i] = filters[i].attribute \o <<" ","L","I","K","E"," ","'","%">>
                                        \o filters[i].value \o <<"%","'">>

\* C10 witness: two filters, the first a contains filter, rendered with both
\* predicates in the text.
C10_Witness ==
    /\ pc = "rendered"
    /\ Len(filters) = 2
    /\ filters[1] = Filter(<<"s">>, <<"c","o","n","t","a","i","n","s">>, <<"f","o","o">>)
    /\ filters[2].operator = <<"b","e","t","w","e","e","n">>
    /\ includes(sql, <<" ","W","H","E","R","E"," ","s"," ","L","I","K","E"," ","'","%","f","o","o","%","'"," ","A","N","D"," ","n"," ","B","E","T","W","E","E","N"," ","5","0"," ","A","N","D"," ","1","0"," ">>)

\* the column list that the preview declares for an aggregated table
DeclaredColumns ==
    {groupBy[i] : i \in 1..Len(groupBy)}
        \cup {aggColumn(aggregations[k]) : k \in 1..Len(aggregations)}

\* C11: the keys of every row returned by groupAndAggregate are exactly the
\* group-by attribute names and one func(attribute) column per aggregation,
\* the columns the preview declares; no running-sum or running-count key of
\* an avg is among them.
C11_RowKeysAreDeclaredColumns ==
    Aggregated =>
        \A i \in 1..Len(staged.rows) :
            /\ DOMAIN staged.rows[i] = DeclaredColumns
            /\ \A k \in 1..Len(aggregations) :
                  /\ sumKey(aggregations[k]) \notin DOMAIN staged.rows[i]
                  /\ cntKey(aggregations[k]) \notin DOMAIN staged.rows[i]

\* ----- repeated and unrelated aggregations -------------------------------
DupAttrs == << Attr(<<"g">>, "string"), Attr(<<"a">>, "number"), Attr(<<"b">>, "number") >>

DupRowPool ==
    { (<<"g">> :> Str(<<"x">>)) @@ (<<"a">> :> Num(10)) @@ (<<"b">> :> Num(1)),
      (<<"g">> :> Str(<<"x">>)) @@ (<<"a">> :> Num(5)) @@ (<<"b">> :> Num(2)),
      (<<"g">> :> Str(<<"y">>)) @@ (<<"a">> :> Num(7)) @@ (<<"b">> :> Num(3)) }

DupAggPool ==
    {Agg(attr, NUMERIC_FUNCS[i]) : attr \in {<<"a">>, <<"b">>}, i \in 1..Len(NUMERIC_FUNCS)}

MaxDupRows == 2
MaxDupAggs == 2

InitDuplicate ==
    \E rows \in SeqsUpTo(DupRowPool, MaxDupRows),
       gb \in { <<>>, << <<"g">> >> },
       aggs \in SeqsUpTo(DupAggPool, MaxDupAggs) :
        /\ Len(aggs) > 0
        /\ Mount(Dataset(<<"T">>, DupAttrs, rows), <<>>, <<>>, gb, aggs,
                 NoSort, DefaultRowLimit)

SpecDuplicate == InitDuplicate /\ [][Next]_vars

\* C12: the value of func(attribute) in each result row of groupAndAggregate
\* is the value obtained when that pair is the only aggregation requested,
\* however many times the pair is listed and whatever other aggregations are
\* listed with it.
C12_ValueAsWhenListedOnce ==
    Aggregated =>
        \A k \in 1..Len(aggregations) :
            LET a == aggregations[k]
                alone == groupAndAggregate(filteredRows, groupBy, <<a>>)
            IN  /\ Len(alone) = Len(staged.rows)
                /\ \A i \in 1..Len(staged.rows) :
                      Get(staged.rows[i], aggColumn(a)) = Get(alone[i], aggColumn(a))

\* the operators that have a case of their own in applyFilters
RecognizedOperators ==
    { <<"c","o","n","t","a","i","n","s">>, <<"s","t","a","r","t","s","W","i","t","h">>,
      <<"e","n","d","s","W","i","t","h">>, <<"=">>, <<"!","=">>, <<">">>, <<">","=">>,
      <<"<">>, <<"<","=">>, <<"b","e","t","w","e","e","n">>, <<"o","n">>,
      <<"b","e","f","o","r","e">>, <<"a","f","t","e","r">>, <<"r","a","n","g","e">> }

\* the filter names an attribute the row does not have, or an operator that
\* applyFilters does not know
Inapplicable(row, f) ==
    f.attribute \notin DOMAIN row \/ f.operator \notin RecognizedOperators

\* C13: a filter whose attribute is not a key of the row, or whose operator
\* is not a recognized one, never excludes the row: a row for which every
\* filter is of that kind is kept by applyFilters, whatever the operators and
\* the filter values.
C13_InapplicableFilterKeepsRow ==
    pc # "mount" =>
        \A i \in 1..Len(selectedDataset.sampleRows) :
            LET row == selectedDataset.sampleRows[i]
            IN  (\A j \in 1..Len(filters) : Inapplicable(row, filters[j]))
                => /\ \A j \in 1..Len(filters) : filterPredicate(row, filters[j])
                   /\ \E m \in 1..Len(filteredRows) : filteredRows[m] = row

\* ===================================================================
\* The component's event handlers
\* ===================================================================
\* A handler runs on a rendered component and sets state hooks; the memos
\* are then stale until the next render, which pc = mount stands for, and
\* the text of an earlier download is gone.
handled ==
    /\ pc' = "mount"
    /\ filteredRows' = <<>>
    /\ staged' = NoTable
    /\ preview' = NoTable
    /\ sql' = <<>>
    /\ csv' = <<>>
    /\ UNCHANGED <<catalog, selectedDataset, rowLimit>>

interactive == pc \in {"rendered", "downloaded"}

\* datasetAttributes of the last render
datasetAttributes == selectedDataset.attributes

\* [...new Set(seq)]: the first occurrence of each element, in order
RECURSIVE newSet(_)
newSet(seq) ==
    IF Len(seq) = 0 THEN <<>>
    ELSE LET rest == newSet(SubSeq(seq, 1, Len(seq) - 1))
             last == seq[Len(seq)]
         IN  IF \E i \in 1..Len(rest) : rest[i] = last THEN rest ELSE Append(rest, last)

MaxUIFilters == 2
MaxUIAggs == 2

\* a click on a dataset of the catalogue other than the selected one
SelectDataset ==
    /\ interactive
    /\ \E d \in 1..Len(catalog) :
          /\ d # selectedDatasetId
          /\ selectedDatasetId' = d
    /\ handled
    /\ UNCHANGED <<selectedAttributes, filters, groupBy, aggregations, sort>>

\* + Filter
addFilter ==
    /\ interactive
    /\ Len(filters) < MaxUIFilters
    /\ Len(datasetAttributes) > 0
    /\ LET first == datasetAttributes[1]
       IN  filters' = Append(filters, Filter(first.name, operatorsFor(first.type)[1], <<>>))
    /\ handled
    /\ UNCHANGED <<selectedDatasetId, selectedAttributes, groupBy, aggregations, sort>>

\* + Group By
addGroupBy ==
    /\ interactive
    /\ LET nonNumber == SelectSeq(datasetAttributes, LAMBDA a : a.type # "number")
       IN  groupBy' = [i \in 1..Len(sliceTo(nonNumber, 1)) |-> sliceTo(nonNumber, 1)[i].name]
    /\ handled
    /\ UNCHANGED <<selectedDatasetId, selectedAttributes, filters, aggregations, sort>>

\* + Aggregate: nothing is set when the dataset has no numeric attribute
addAggregation ==
    /\ interactive
    /\ Len(aggregations) < MaxUIAggs
    /\ LET numeric == SelectSeq(datasetAttributes,
                                LAMBDA a : isNumericType(a.type) \/ a.type = "number")
       IN  /\ Len(numeric) > 0
           /\ aggregations' = Append(aggregations, Agg(numeric[1].name, <<"s","u","m">>))
    /\ handled
    /\ UNCHANGED <<selectedDatasetId, selectedAttributes, filters, groupBy, sort>>

\* Select All
SelectAll ==
    /\ interactive
    /\ selectedAttributes' = [i \in 1..Len(datasetAttributes) |-> datasetAttributes[i].name]
    /\ handled
    /\ UNCHANGED <<selectedDatasetId, filters, groupBy, aggregations, sort>>

\* Clear
ClearAttributes ==
    /\ interactive
    /\ selectedAttributes' = <<>>
    /\ handled
    /\ UNCHANGED <<selectedDatasetId, filters, groupBy, aggregations, sort>>

\* a click on the checkbox of one attribute of the dataset: checked when it
\* was not, unchecked when it was
ToggleAttribute ==
    /\ interactive
    /\ \E i \in 1..Len(datasetAttributes) :
          LET name == datasetAttributes[i].name
              checked == \E j \in 1..Len(selectedAttributes) : selectedAttributes[j] = name
          IN  selectedAttributes' =
                  IF ~checked THEN newSet(Append(selectedAttributes, name))
                  ELSE SelectSeq(selectedAttributes, LAMBDA x : x # name)
    /\ handled
    /\ UNCHANGED <<selectedDatasetId, filters, groupBy, aggregations, sort>>

\* Reset
Reset ==
    /\ interactive
    /\ selectedAttributes' = <<>>
    /\ filters' = <<>>
    /\ groupBy' = <<>>
    /\ aggregations' = <<>>
    /\ sort' = SortBy(<<>>, <<"A","S","C">>)
    /\ handled
    /\ UNCHANGED selectedDatasetId

NextUI ==
    \/ Render
    \/ DownloadCSV
    \/ SelectDataset
    \/ addFilter
    \/ addGroupBy
    \/ addAggregation
    \/ SelectAll
    \/ ClearAttributes
    \/ ToggleAttribute
    \/ Reset

\* ----- the seeded catalogue: two datasets with different attributes -----
UICatalog ==
    << Dataset(<<"G","L"," ","B","a","l","a","n","c","e","s">>,
               << Attr(<<"d">>, "date"), Attr(<<"b">>, "number") >>,
               << (<<"d">> :> Str(<<"2","0","2","4","-","0","1","-","1","5">>)) @@ (<<"b">> :> Num(5)),
                  (<<"d">> :> Str(<<"2","0","2","4","-","0","1","-","1","5">>)) @@ (<<"b">> :> Num(10)),
                  (<<"d">> :> Str(<<"2","0","2","4","-","0","2","-","0","1">>)) @@ (<<"b">> :> Num(-2)) >>),
       Dataset(<<"C","a","s","h"," ","M","o","v","e","m","e","n","t","s">>,
               << Attr(<<"v">>, "date"), Attr(<<"m">>, "number") >>,
               << (<<"v">> :> Str(<<"2","0","2","4","-","0","1","-","0","1">>)) @@ (<<"m">> :> Num(7)),
                  (<<"v">> :> Str(<<"2","0","2","4","-","0","1","-","0","1">>)) @@ (<<"m">> :> Num(3)) >>) >>

\* the component as constructed: the first dataset selected, nothing configured
InitUI ==
    MountCatalog(UICatalog, 1, <<>>, <<>>, <<>>, <<>>, NoSort, DefaultRowLimit)

SpecUI == InitUI /\ [][NextUI]_vars

\* the component over the same catalogue with a sort already configured
FrameSortPool == { NoSort, SortBy(<<"b">>, <<"D","E","S","C">>), SortBy(<<"m">>, <<"A","S","C">>) }

InitFrame ==
    \E srt \in FrameSortPool, limit \in {1, DefaultRowLimit} :
        MountCatalog(UICatalog, 1, <<>>, <<>>, <<>>, <<>>, srt, limit)

\* the renders and the handlers that change which stages run and on what
NextFrame ==
    \/ Render
    \/ DownloadCSV
    \/ SelectDataset
    \/ addFilter
    \/ addGroupBy
    \/ addAggregation
    \/ SelectAll
    \/ Reset

SpecFrame == InitFrame /\ [][NextFrame]_vars

\* the table that one isolated run of the pipeline gives for the present
\* configuration over the dataset as seeded
IsolatedStage ==
    stageRows(applyFilters(UICatalog[selectedDatasetId].sampleRows, filters),
              UICatalog[selectedDatasetId].attributes,
              selectedAttributes, groupBy, aggregations)

\* C14: no stage of the pipeline changes its input.  After any number of
\* renders, over either dataset and under the configurations that the
\* handlers set one after another, every dataset still has the rows it was
\* seeded with (their number, order and fields), and the table of each render
\* is the table that an isolated run of its configuration gives.
C14_RunsLeaveTheDatasetAlone ==
    /\ catalog = UICatalog
    /\ pc # "mount" =>
          /\ selectedDataset = UICatalog[selectedDatasetId]
          /\ filteredRows = applyFilters(UICatalog[selectedDatasetId].sampleRows, filters)
          /\ staged = IsolatedStage
          /\ preview \in previewOutcomes(IsolatedStage, sort, rowLimit)

\* C14 witness: a render of the second dataset under a sort and a grouped
\* aggregation, the aggregation list still holding the aggregation that was
\* added and run on the first dataset.
C14_Witness ==
    /\ pc = "rendered"
    /\ selectedDatasetId = 2
    /\ sort = SortBy(<<"m">>, <<"A","S","C">>)
    /\ groupBy = << <<"v">> >>
    /\ aggregations = << Agg(<<"b">>, <<"s","u","m">>), Agg(<<"m">>, <<"s","u","m">>) >>
    /\ Len(preview.rows) = 1
    /\ Get(preview.rows[1], <<"s","u","m","(","m",")">>) = Num(10)
    /\ catalog[1].sampleRows = UICatalog[1].sampleRows

\* the names of the attributes of the selected dataset
AttributeNames == {datasetAttributes[i].name : i \in 1..Len(datasetAttributes)}

\* C15: after any sequence of handlers, every attribute name held in filters,
\* groupBy, aggregations and selectedAttributes is the name of an attribute
\* of the selected dataset.
C15_ConfigurationNamesDatasetAttributes ==
    pc # "mount" =>
        /\ \A i \in 1..Len(filters) : filters[i].attribute \in AttributeNames
        /\ \A i \in 1..Len(groupBy) : groupBy[i] \in AttributeNames
        /\ \A i \in 1..Len(aggregations) : aggregations[i].attribute \in AttributeNames
        /\ \A i \in 1..Len(selectedAttributes) : selectedAttributes[i] \in AttributeNames

====
